---- MODULE Spec2Model ----
(***************************************************************************)
(* Model of package rate (github.com/as/rate): a per-key limiter whose     *)
(* ledger is owned by one actor goroutine (limiter.run), reached through   *)
(* the buffered channel l.schedule, with a ticker-driven sweep and a       *)
(* one-shot Close.  Time is counted in whole units (one unit = the         *)
(* time.Second slice of Allow).                                            *)
(***************************************************************************)
EXTENDS Integers, Sequences, FiniteSets, TLC

\* ------------------------------------------------------------------ bounds
MaxTime == 3        \* the clock runs from 0 to MaxTime
MaxQuantum == 2     \* New(quantum) is called with quantum in 0..MaxQuantum
MaxSlice == 2       \* Schedule is called with slice in -1..MaxSlice
MaxCalls == 4       \* Schedule calls issued in one behaviour
MaxAllows == 9      \* Allow calls issued in one behaviour of the replenish test

Keys == {"bar", "baz"}
HistKey == "bar"
Callers == {"c1", "c2"}
Closers == {"k1", "k2"}
Slices == (0 - 1)..MaxSlice
Quanta == 0..MaxQuantum

\* ------------------------------------------------------- program constants
tickInterval == 3   \* const tickInterval = time.Second * 3
maxSweep == 10      \* const maxSweep = 10
AllowSlice1 == 1    \* Allow schedules time.Second
SchedCap == 1       \* schedule: make(chan ask, 1)
ReplyCap == 1       \* reply := make(chan time.Duration, 1)
ZeroTime == 0 - 100 \* the zero time.Time a map read yields for a missing key
ReplQuantum == 3    \* TestLimiterReplenish: New(time.Second * 3)

VARIABLES
    quantum,        \* l.quantum
    now,            \* the wall clock, time.Now()
    m,              \* run's map m: a function from the keys that have an entry
    schedule,       \* l.schedule: the buffered asks, then the blocked senders
    schedClosed,    \* l.schedule has been closed (deferred close in run)
    tickC,          \* a tick is pending in tick.C
    actor,          \* the run goroutine: "run", "blocked", "exited"
    closecap,       \* l.closecap: its buffer
    capClosed,      \* l.closecap has been closed
    done,           \* l.done has been closed
    kpc,            \* each Close caller's position
    cpc,            \* each Schedule caller's position
    reply,          \* each caller's reply channel (of its current call)
    cur,            \* the task and slice of each caller's current Schedule call
    \* history variables
    calls,          \* Schedule calls issued so far
    doneCloses,     \* how many times close(l.done) has been executed
    granted,        \* per key and instant, the sum of the slices granted then
    streak,         \* per key, the run of Allow calls made at one instant
    deny,           \* per key, the denials not yet followed by a grant
    retry,          \* the outcome of the last ask served, if it was a due retry
    solo,           \* per key, the entry of a limiter that sees only that key
    outcomes,       \* the instant and the outcome of every ask served, in order
    basis,          \* per caller, the baseline its call in progress was granted on
    denied          \* per key, the denials (slice, instant, delay) since its last grant, in order

vars == <<quantum, now, m, schedule, schedClosed, tickC, actor, closecap,
          capClosed, done, kpc, cpc, reply, cur, calls, doneCloses,
          granted, streak, deny, retry, solo, outcomes, basis, denied>>

chanVars == <<schedule, schedClosed, cpc, reply, cur>>
closeVars == <<closecap, capClosed, done, kpc, doneCloses>>
hist == <<granted, streak, deny, retry, solo, outcomes, basis, denied>>

NoCall == [task |-> "", slice |-> 0]
NoStreak == [on |-> FALSE, at |-> 0, calls |-> 0, grants |-> 0]
NoRetry == [due |-> FALSE, granted |-> FALSE, exh |-> FALSE, slice |-> 0]
NoBasis == [on |-> FALSE, base |-> 0]

Max(a, b) == IF a >= b THEN a ELSE b
Min(a, b) == IF a <= b THEN a ELSE b

\* ------------------------------------------------------------ the ledger
\* m[ask.string]: a missing key reads as the zero time.Time
Lookup(mm, k) == IF k \in DOMAIN mm THEN mm[k] ELSE ZeroTime

\* a faulty store: the ledger is not keyed, every entry takes the value
StoreAll(mm, k, v) == [x \in DOMAIN mm \cup {k} |-> v]

\* m[ask.string] = then
Store(mm, k, v) == [x \in DOMAIN mm \cup {k} |-> IF x = k THEN v ELSE mm[x]]

\* delete(m, k) for every k of D
Delete(mm, D) == [x \in DOMAIN mm \ D |-> mm[x]]

\* a faulty floor: the window is taken twice as long
floorWide(mark, t) == IF ~(mark > t - 2 * quantum) THEN t - 2 * quantum ELSE mark

\* a faulty floor: the clamp is left out
floorNoClamp(mark, t) == mark

\* floor returns the mark time clamped to [now-window, +inf)
floor(mark, t) == IF ~(mark > t - quantum) THEN t - quantum ELSE mark

\* then := l.floor(m[ask.string], now).Add(ask.Duration)
Then(mm, k, slice, t) == floor(Lookup(mm, k), t) + slice

\* delta := then.Sub(now)
Delta(mm, k, slice, t) == Then(mm, k, slice, t) - t

\* a faulty commit: the comparison is strict, a delay of zero commits nothing
CommitStrict(mm, k, slice, t) ==
    IF Delta(mm, k, slice, t) < 0 THEN Store(mm, k, Then(mm, k, slice, t)) ELSE mm

\* a faulty commit: the projection is stored whether or not the ask is granted
CommitAlways(mm, k, slice, t) == Store(mm, k, Then(mm, k, slice, t))

\* if delta <= 0 { m[ask.string] = then }
Commit(mm, k, slice, t) ==
    IF Delta(mm, k, slice, t) <= 0 THEN Store(mm, k, Then(mm, k, slice, t)) ELSE mm

\* ------------------------------------------------------------------ Init
\* New(quantum): schedule and done empty, closecap holds true, run started
Started ==
    /\ now = 0
    /\ m = << >>
    /\ schedule = << >>
    /\ schedClosed = FALSE
    /\ tickC = FALSE
    /\ actor = "run"
    /\ closecap = <<TRUE>>
    /\ capClosed = FALSE
    /\ done = FALSE
    /\ kpc = [c \in Closers |-> "idle"]
    /\ cpc = [c \in Callers |-> "idle"]
    /\ reply = [c \in Callers |-> << >>]
    /\ cur = [c \in Callers |-> NoCall]
    /\ calls = 0
    /\ doneCloses = 0
    /\ granted = [k \in Keys |-> [t \in 0..MaxTime |-> 0]]
    /\ streak = [k \in Keys |-> NoStreak]
    /\ deny = [k \in Keys |-> {}]
    /\ retry = NoRetry
    /\ solo = [k \in Keys |-> ZeroTime]
    /\ outcomes = << >>
    /\ basis = [c \in Callers |-> NoBasis]
    /\ denied = [k \in Keys |-> << >>]

Init == quantum \in Quanta /\ Started

\* ------------------------------------------------------------- Schedule
\* Schedule: reply := make(chan, 1); l.schedule <- ask{...}.  The send
\* panics on a closed channel, completes while the buffer has room and
\* otherwise parks the caller behind the earlier senders.
SendAsk(c, k, s) ==
    /\ cpc[c] = "idle"
    /\ reply' = [reply EXCEPT ![c] = << >>]
    /\ cur' = [cur EXCEPT ![c] = [task |-> k, slice |-> s]]
    /\ IF schedClosed
         THEN /\ cpc' = [cpc EXCEPT ![c] = "panic"]
              /\ UNCHANGED schedule
         ELSE /\ schedule' = Append(schedule, [task |-> k, slice |-> s, caller |-> c])
              /\ cpc' = [cpc EXCEPT ![c] =
                            IF Len(schedule) < SchedCap THEN "recv" ELSE "send"]
    /\ UNCHANGED <<quantum, now, m, schedClosed, tickC, actor>>
    /\ UNCHANGED closeVars
    /\ UNCHANGED hist

\* Schedule: return <-reply
RecvReply(c) ==
    /\ cpc[c] = "recv"
    /\ reply[c] # << >>
    /\ reply' = [reply EXCEPT ![c] = Tail(reply[c])]
    /\ cpc' = [cpc EXCEPT ![c] = "idle"]
    /\ cur' = [cur EXCEPT ![c] = NoCall]
    /\ UNCHANGED <<quantum, now, m, schedule, schedClosed, tickC, actor, calls>>
    /\ UNCHANGED closeVars
    /\ UNCHANGED hist

\* ------------------------------------------------------------------ run
\* The receive of run's select: the head of the buffer leaves, and the
\* first parked sender's ask moves into the buffer, which completes its send.
AfterRecv(q, pcs) ==
    [c \in Callers |->
        IF Len(q) > SchedCap /\ q[SchedCap + 1].caller = c THEN "recv" ELSE pcs[c]]

\* a faulty reply: only a grant is answered
SendReplyIfGranted(ch, delta) == IF delta <= 0 THEN Append(ch, delta) ELSE ch

\* ask.reply <- delta
SendReply(ch, delta) == Append(ch, delta)

\* case ask := <-l.schedule: compute, reply, commit when granted
ServeAsk ==
    /\ actor = "run"
    /\ schedule # << >>
    /\ LET a == Head(schedule)
           delta == Delta(m, a.task, a.slice, now)
       IN  /\ schedule' = Tail(schedule)
           /\ cpc' = AfterRecv(schedule, cpc)
           /\ IF Len(reply[a.caller]) < ReplyCap
                THEN /\ reply' = [reply EXCEPT ![a.caller] = SendReply(@, delta)]
                     /\ m' = Commit(m, a.task, a.slice, now)
                     /\ actor' = "run"
                ELSE /\ actor' = "blocked"
                     /\ UNCHANGED <<reply, m>>
    /\ UNCHANGED <<quantum, now, schedClosed, tickC, cur, calls>>
    /\ UNCHANGED closeVars

\* ---------------------------------------------------------- history
\* The history variables are updated in the step in which ServeAsk serves
\* the ask Head(schedule); each specification records the ones its claims use.
Granted == Delta(m, Head(schedule).task, Head(schedule).slice, now) <= 0

\* granted: the slice of a granted ask is added at the instant of the grant
RecordGrants ==
    LET a == Head(schedule)
    IN  /\ granted' = IF Granted THEN [granted EXCEPT ![a.task][now] = @ + a.slice]
                                 ELSE granted
        /\ UNCHANGED <<streak, deny, retry, solo, outcomes, basis, denied>>

\* deny: a denial is kept, with the instant now + delay at which its retry is
\* due and whether the key's quantum was used up (committed-until = now),
\* until the key is granted an ask; retry: whether the ask served is the
\* retry, at the due instant, of a denial kept for its key and slice
RecordRetry ==
    LET a == Head(schedule)
        k == a.task
        delta == Delta(m, k, a.slice, now)
        due == {r \in deny[k] : r.slice = a.slice /\ r.due = now}
    IN  /\ deny' = [deny EXCEPT ![k] =
              IF Granted THEN {}
              ELSE IF now + delta <= MaxTime
                THEN @ \cup {[slice |-> a.slice, due |-> now + delta,
                               exh |-> Lookup(m, k) = now]}
              ELSE @]
        /\ retry' = IF due = {} THEN NoRetry
                    ELSE [due |-> TRUE, granted |-> Granted,
                          exh |-> \E r \in due : r.exh, slice |-> a.slice]
        /\ UNCHANGED <<granted, streak, solo, outcomes, basis, denied>>

\* streak: the Allow calls served for a key at one instant, counted from a
\* call that found the key without an entry, and how many were granted;
\* solo: the committed-until of a limiter that is sent the asks of that
\* key alone (and is never swept)
RecordStreak ==
    LET a == Head(schedule)
        k == a.task
        g == IF Granted THEN 1 ELSE 0
        soloThen == Max(solo[k], now - quantum) + a.slice
    IN  /\ streak' = [streak EXCEPT ![k] =
              IF a.slice = AllowSlice1 /\ streak[k].on /\ streak[k].at = now
                THEN [@ EXCEPT !.calls = @ + 1, !.grants = @ + g]
              ELSE IF a.slice = AllowSlice1 /\ k \notin DOMAIN m
                THEN [on |-> TRUE, at |-> now, calls |-> 1, grants |-> g]
              ELSE NoStreak]
        /\ solo' = [solo EXCEPT ![k] = IF soloThen - now <= 0 THEN soloThen ELSE @]
        /\ basis' = [basis EXCEPT ![a.caller] =
              IF Granted THEN [on |-> TRUE, base |-> floor(Lookup(m, k), now)]
              ELSE NoBasis]
        /\ UNCHANGED <<granted, deny, retry, outcomes, denied>>

\* denied: the denials of a key, until the key is granted an ask; solo: as
\* in RecordStreak, the committed-until of a limiter that is never swept
RecordDenied ==
    LET a == Head(schedule)
        k == a.task
        soloThen == Max(solo[k], now - quantum) + a.slice
    IN  /\ denied' = [denied EXCEPT ![k] =
              IF Granted THEN << >>
              ELSE Append(@, [slice |-> a.slice, at |-> now,
                              delay |-> Delta(m, k, a.slice, now)])]
        /\ solo' = [solo EXCEPT ![k] = IF soloThen - now <= 0 THEN soloThen ELSE @]
        /\ UNCHANGED <<granted, streak, deny, retry, outcomes, basis>>

\* outcomes: the instant at which each ask was served and whether it was granted
RecordOutcomes ==
    /\ outcomes' = Append(outcomes, [at |-> now, granted |-> Granted])
    /\ UNCHANGED <<granted, streak, deny, retry, solo, basis, denied>>

\* The entries one sweep pass may visit: range m stops after the entry at
\* which i has reached maxSweep, in an order the runtime chooses.
SweepVisits(mm) ==
    {V \in SUBSET DOMAIN mm : Cardinality(V) = Min(Cardinality(DOMAIN mm), maxSweep + 1)}

\* a faulty sweep: every entry visited is deleted
SweepAll(mm, V, t) == Delete(mm, V)

\* if l.floor(v, t) != v { delete(m, k) }
Sweep(mm, V, t) == Delete(mm, {k \in V : floor(mm[k], t) # mm[k]})

\* a faulty tick: the pass is made without looking at l.done
TickSweepUnchecked ==
    /\ actor = "run"
    /\ tickC
    /\ tickC' = FALSE
    /\ \E V \in SweepVisits(m) : m' = Sweep(m, V, now)
    /\ UNCHANGED <<quantum, now, actor, calls>>
    /\ UNCHANGED chanVars
    /\ UNCHANGED closeVars
    /\ UNCHANGED hist

\* case <-tick.C with l.done open: one sweep pass
TickSweep ==
    /\ actor = "run"
    /\ tickC
    /\ ~done
    /\ tickC' = FALSE
    /\ \E V \in SweepVisits(m) : m' = Sweep(m, V, now)
    /\ UNCHANGED <<quantum, now, actor, calls>>
    /\ UNCHANGED chanVars
    /\ UNCHANGED closeVars
    /\ UNCHANGED hist

\* The senders parked on l.schedule when it is closed panic; the asks
\* already in the buffer stay there.
Parked(q) == {q[i].caller : i \in (SchedCap + 1)..Len(q)}

\* case <-tick.C with l.done closed: return; deferred tick.Stop() and
\* close(l.schedule)
TickExit ==
    /\ actor = "run"
    /\ tickC
    /\ done
    /\ tickC' = FALSE
    /\ actor' = "exited"
    /\ schedClosed' = TRUE
    /\ schedule' = SubSeq(schedule, 1, Min(Len(schedule), SchedCap))
    /\ cpc' = [c \in Callers |-> IF c \in Parked(schedule) THEN "panic" ELSE cpc[c]]
    /\ UNCHANGED <<quantum, now, m, reply, cur, calls>>
    /\ UNCHANGED closeVars
    /\ UNCHANGED hist

\* ---------------------------------------------------------------- Close
\* a faulty Close: the token is read but left in l.closecap
CloseSelectPeek(c) ==
    /\ kpc[c] \in {"idle", "returned"}
    /\ kpc' = [kpc EXCEPT ![c] =
                  IF closecap # << >> /\ Head(closecap) THEN "first" ELSE "returned"]
    /\ UNCHANGED <<quantum, now, m, tickC, actor, calls, closecap, capClosed, done,
                   doneCloses>>
    /\ UNCHANGED chanVars
    /\ UNCHANGED hist

\* select { case first := <-l.closecap: ...; default: }
CloseSelect(c) ==
    /\ kpc[c] \in {"idle", "returned"}
    /\ IF closecap # << >>
         THEN /\ closecap' = Tail(closecap)
              /\ kpc' = [kpc EXCEPT ![c] = IF Head(closecap) THEN "first" ELSE "returned"]
         ELSE \* closed: first is false; open and empty: default
              /\ kpc' = [kpc EXCEPT ![c] = "returned"]
              /\ UNCHANGED closecap
    /\ UNCHANGED <<quantum, now, m, tickC, actor, calls, capClosed, done, doneCloses>>
    /\ UNCHANGED chanVars
    /\ UNCHANGED hist

\* close(l.closecap)
CloseCap(c) ==
    /\ kpc[c] = "first"
    /\ IF capClosed
         THEN /\ kpc' = [kpc EXCEPT ![c] = "panic"]
              /\ UNCHANGED capClosed
         ELSE /\ capClosed' = TRUE
              /\ kpc' = [kpc EXCEPT ![c] = "capclosed"]
    /\ UNCHANGED <<quantum, now, m, tickC, actor, calls, closecap, done, doneCloses>>
    /\ UNCHANGED chanVars
    /\ UNCHANGED hist

\* close(l.done); return nil
CloseDone(c) ==
    /\ kpc[c] = "capclosed"
    /\ doneCloses' = doneCloses + 1
    /\ IF done
         THEN /\ kpc' = [kpc EXCEPT ![c] = "panic"]
              /\ UNCHANGED done
         ELSE /\ done' = TRUE
              /\ kpc' = [kpc EXCEPT ![c] = "returned"]
    /\ UNCHANGED <<quantum, now, m, tickC, actor, calls, closecap, capClosed>>
    /\ UNCHANGED chanVars
    /\ UNCHANGED hist

\* ----------------------------------------------------------------- time
\* One unit of time passes; the ticker, while not stopped, puts a tick in
\* tick.C every tickInterval (a tick is dropped when one is pending).
Advance ==
    /\ now < MaxTime
    /\ now' = now + 1
    /\ tickC' = (tickC \/ (actor # "exited" /\ (now + 1) % tickInterval = 0))
    /\ UNCHANGED <<quantum, m, actor, calls>>
    /\ UNCHANGED chanVars
    /\ UNCHANGED closeVars
    /\ UNCHANGED hist

\* Allow(l, task): l.Schedule(task, time.Second)
Allow(c, k) == SendAsk(c, k, AllowSlice1) /\ UNCHANGED calls

\* l.Schedule(task, slice), counted
Schedule(c, k, s) ==
    /\ calls < MaxCalls
    /\ calls' = calls + 1
    /\ SendAsk(c, k, s)

Next ==
    \/ \E c \in Callers, k \in Keys : Allow(c, k)
    \/ \E c \in Callers : RecvReply(c)
    \/ ServeAsk /\ UNCHANGED hist
    \/ TickSweep
    \/ TickExit
    \/ \E c \in Closers : CloseSelect(c)
    \/ \E c \in Closers : CloseCap(c)
    \/ \E c \in Closers : CloseDone(c)
    \/ Advance

\* Any number of goroutines calling Allow and Close on one limiter
Spec == Init /\ [][Next]_vars

\* The same goroutines, all calling Allow on one key
FairNext ==
    \/ \E c \in Callers : Allow(c, HistKey)
    \/ \E c \in Callers : RecvReply(c)
    \/ ServeAsk /\ UNCHANGED hist
    \/ TickSweep
    \/ TickExit
    \/ \E c \in Closers : CloseSelect(c)
    \/ \E c \in Closers : CloseCap(c)
    \/ \E c \in Closers : CloseDone(c)
    \/ Advance

\* with the run goroutine and every caller scheduled fairly: run takes an
\* ask that waits in l.schedule, a caller takes a reply that waits in its
\* channel.
FairSpec ==
    /\ Init /\ [][FairNext]_vars
    /\ WF_vars(ServeAsk /\ UNCHANGED hist)
    /\ \A c \in Callers : WF_vars(RecvReply(c))

\* One client goroutine issuing Schedule calls of any slice, one after the
\* other, on a limiter that is never closed.
SeqNext ==
    \/ \E k \in Keys, s \in Slices : Schedule("c1", k, s)
    \/ RecvReply("c1")
    \/ ServeAsk /\ RecordRetry
    \/ TickSweep
    \/ Advance

SeqSpec == Init /\ [][SeqNext]_vars

\* The same client scheduling one key, with the grants recorded per instant
HistNext ==
    \/ \E s \in Slices : Schedule("c1", HistKey, s)
    \/ RecvReply("c1")
    \/ ServeAsk /\ RecordGrants
    \/ TickSweep
    \/ Advance

HistSpec == Init /\ [][HistNext]_vars

\* Concurrent goroutines calling Allow (counted) on a limiter that is never
\* closed: TestLimiterBasic, TestLimiterMulti
MultiNext ==
    \/ \E c \in Callers, k \in Keys : Schedule(c, k, AllowSlice1)
    \/ \E c \in Callers : RecvReply(c)
    \/ ServeAsk /\ RecordStreak
    \/ TickSweep
    \/ Advance

MultiSpec == Init /\ [][MultiNext]_vars

\* The client scheduling one key again, with its denials recorded next to
\* a limiter that is never swept
DenyNext ==
    \/ \E s \in Slices : Schedule("c1", HistKey, s)
    \/ RecvReply("c1")
    \/ ServeAsk /\ RecordDenied
    \/ TickSweep
    \/ Advance

DenySpec == Init /\ [][DenyNext]_vars

\* Allow(l, task), counted up to MaxAllows
AllowCounted(c, k) ==
    /\ calls < MaxAllows
    /\ calls' = calls + 1
    /\ SendAsk(c, k, AllowSlice1)

\* TestLimiterReplenish: one goroutine calling Allow on one key of a limiter
\* made with a quantum of up to three units, sleeping between the calls
ReplInit == quantum \in 0..ReplQuantum /\ Started

ReplNext ==
    \/ AllowCounted("c1", HistKey)
    \/ RecvReply("c1")
    \/ ServeAsk /\ RecordOutcomes
    \/ TickSweep
    \/ Advance

ReplSpec == ReplInit /\ [][ReplNext]_vars

\* ------------------------------------------------------- a large ledger
\* One more task than a sweep pass visits.  Task 1 is scheduled once and
\* then left alone (the "stale" key of TestLimiterSweepl); the client keeps
\* calling Allow on the other tasks, one after the other, round and round.
NTasks == maxSweep + 2
Task(i) == ToString(i)
StaleTask == Task(1)

\* The next Allow call of that client; calls holds the number of the task
\* called last.
AllowNext(c) ==
    /\ calls' = IF calls = NTasks THEN 2 ELSE calls + 1
    /\ SendAsk(c, Task(calls'), AllowSlice1)

\* One tick interval passes and the ticker puts a tick in tick.C.  The code
\* reads the clock only to compare it with ledger entries, so here the
\* clock keeps its reading and the entries move back instead; an entry
\* that has left the window is kept at now - quantum - 1, whatever its age.
TickElapse ==
    /\ m' = [k \in DOMAIN m |-> Max(m[k] - tickInterval, now - quantum - 1)]
    /\ tickC' = (tickC \/ actor # "exited")
    /\ UNCHANGED <<quantum, now, actor, calls>>
    /\ UNCHANGED chanVars
    /\ UNCHANGED closeVars
    /\ UNCHANGED hist

SweepNext ==
    \/ AllowNext("c1")
    \/ RecvReply("c1")
    \/ ServeAsk /\ UNCHANGED hist
    \/ TickSweep
    \/ TickElapse

\* a sweep pass that visits the entry of the stale task and deletes it
SweepStale == TickSweep /\ StaleTask \in DOMAIN m /\ StaleTask \notin DOMAIN m'

\* Time passes without end, and of the ticks that find the stale entry in
\* the ledger run does not for ever leave all unhandled or handle all with a
\* pass that leaves that entry out (range m starts at a random entry).
SweepSpec ==
    /\ Init /\ [][SweepNext]_vars
    /\ WF_vars(TickElapse)
    /\ SF_vars(SweepStale)

\* ================================================================ claims
\* A step in which run receives and serves the ask at the head of l.schedule
ServeStep == actor = "run" /\ schedule # << >> /\ schedule' = Tail(schedule)

\* C1: Schedule(key, slice) replies delay = max(prior, now - quantum) + slice
\* - now, an absent key counting as older than now - quantum; when that delay
\* is <= 0 the entry of key becomes max(prior, now - quantum) + slice.
C1_ScheduleArithmetic ==
    [][ServeStep =>
        LET a == Head(schedule)
            base == IF a.task \in DOMAIN m
                      THEN Max(m[a.task], now - quantum) ELSE now - quantum
            d == base + a.slice - now
        IN  /\ reply'[a.caller] = <<d>>
            /\ d <= 0 => a.task \in DOMAIN m' /\ m'[a.task] = base + a.slice]_vars

\* A caller holds the reply of a grant that left spare capacity, and the
\* entry of its key is the committed projection now + delay.
C1_Witness ==
    \E c \in Callers :
        /\ reply[c] # << >> /\ Head(reply[c]) < 0
        /\ cur[c].slice > 0
        /\ cur[c].task \in DOMAIN m /\ m[cur[c].task] = now + Head(reply[c])

\* C2: a denied Schedule call (delay > 0) leaves the whole ledger as it was:
\* same keys, same values.
C2_DenialLeavesLedger ==
    [][ServeStep /\ Head(reply'[Head(schedule).caller]) > 0 => m' = m]_vars

\* A caller holds a denial for a key that has no entry while another key has one.
C2_Witness ==
    \E c \in Callers :
        /\ reply[c] # << >> /\ Head(reply[c]) > 0
        /\ cur[c].task \notin DOMAIN m
        /\ DOMAIN m # {}


\* C3: on a key without an entry, Allow calls served with no time elapsing
\* are granted exactly quantum times (quantum / 1 unit), every further one is
\* denied: of n such calls Min(n, quantum) are granted.
C3_ExactlyQuantumGrants ==
    \A k \in Keys : streak[k].on => streak[k].grants = Min(streak[k].calls, quantum)

\* quantum grants and then a denial, for the largest quantum
C3_Witness ==
    \E k \in Keys :
        /\ streak[k].on /\ quantum = MaxQuantum
        /\ streak[k].calls = quantum + 1 /\ streak[k].grants = quantum

\* The slices granted to key k at the instants a..b
RECURSIVE SumGranted(_, _, _)
SumGranted(k, a, b) ==
    IF a > b \/ a > MaxTime THEN 0 ELSE granted[k][a] + SumGranted(k, a + 1, b)

\* C4 as stated: in any window of duration quantum (the instants a <= t <
\* a + quantum) the slices granted to a key sum to at most quantum.
C4_WindowAtMostQuantum ==
    \A k \in Keys, a \in 0..MaxTime : SumGranted(k, a, a + quantum - 1) <= quantum

\* C4 amended: in any window of duration quantum (the instants a <= t <=
\* a + quantum) the slices granted to a key sum to at most 2 * quantum.
C4_WindowAtMostTwiceQuantum ==
    \A k \in Keys, a \in 0..MaxTime : SumGranted(k, a, a + quantum) <= 2 * quantum

\* a window of duration quantum in which twice the quantum was granted
C4_Witness ==
    \E a \in 0..MaxTime :
        /\ quantum > 0 /\ a + quantum <= now
        /\ SumGranted(HistKey, a, a + quantum) = 2 * quantum

\* C5 as stated: on a limiter with a positive quantum, the retry, exactly
\* delay later and with no grant on the key in between, of a call denied when
\* the key's quantum was used up is granted.
C5_RetryGranted == quantum > 0 /\ retry.due /\ retry.exh => retry.granted

\* C5 amended: the same, for a call whose slice is at most the quantum
\* (whether or not the quantum was used up when it was denied).
C5_RetryGrantedWithinQuantum ==
    retry.due /\ retry.slice <= quantum => retry.granted

\* a retry after exhaustion that is granted
C5_Witness ==
    quantum > 0 /\ retry.due /\ retry.exh /\ retry.granted /\ retry.slice > 0

\* C6: every reply on a key and every entry of a key are those of a limiter
\* that is sent the asks of that key alone, whatever is scheduled on the
\* other keys by concurrent callers; an entry the sweeper has removed is one
\* that limiter holds out of the window.
C6_KeysIndependent ==
    [][ /\ ServeStep =>
            LET a == Head(schedule)
            IN  reply'[a.caller] =
                    <<Max(solo[a.task], now - quantum) + a.slice - now>>
        /\ \A k \in Keys :
              IF k \in DOMAIN m' THEN m'[k] = solo'[k]
                                 ELSE solo'[k] < now' - quantum]_vars

\* one key hammered beyond its quantum while the other got exactly its own
C6_Witness ==
    \E a \in Keys : \E b \in Keys \ {a} :
        /\ quantum > 0
        /\ streak[a].on /\ streak[a].calls > quantum
        /\ streak[b].on /\ streak[b].grants = quantum /\ streak[b].at = streak[a].at
        /\ b \in DOMAIN m /\ m[b] = now

C7_CloseOnce ==
    /\ doneCloses <= 1
    /\ done <=> doneCloses = 1
    /\ Cardinality({c \in Closers : kpc[c] \in {"first", "capclosed"}}) <= 1
    /\ \A c \in Closers :
          /\ kpc[c] # "panic"
          /\ kpc[c] = "first" => ENABLED CloseCap(c)
          /\ kpc[c] = "capclosed" => ENABLED CloseDone(c)
          /\ kpc[c] \in {"idle", "returned"} => ENABLED CloseSelect(c)

\* both callers of Close have returned and done is closed
C7_Witness ==
    /\ done /\ doneCloses = 1 /\ capClosed
    /\ \A c \in Closers : kpc[c] = "returned"

\* C8 as stated: a Schedule call issued after Close, or racing with Close
\* and the exit of run, returns a result: it neither panics nor waits for a
\* reply to an ask that run, having exited, will never serve.
C8_ScheduleReturns ==
    \A c \in Callers :
        /\ cpc[c] # "panic"
        /\ ~(actor = "exited" /\ cpc[c] = "recv" /\ reply[c] = << >>)

\* The asks of caller c that wait in l.schedule
Waiting(c) == Cardinality({i \in 1..Len(schedule) : schedule[i].caller = c})

\* C9: while the limiter is not closed every Schedule call is replied to
\* and returns; a call has, at any time, either its ask waiting or its one
\* reply; serving an ask puts the reply in the caller's channel in the same
\* step, run neither blocks on that send nor lets time pass for the delay.
C9_EveryCallReplied ==
    /\ \A c \in Callers : (cpc[c] \in {"send", "recv"}) ~> (cpc[c] = "idle" \/ done)
    /\ [](\A c \in Callers :
            /\ cpc[c] \in {"send", "recv"} => Waiting(c) + Len(reply[c]) = 1
            /\ cpc[c] = "idle" => Waiting(c) = 0 /\ reply[c] = << >>)
    /\ [](actor # "blocked")
    /\ [][ServeStep =>
            /\ Len(reply'[Head(schedule).caller]) = 1
            /\ now' = now /\ actor' = "run"]_vars

\* two callers at once: one holds the reply of a denial, served while the
\* clock stood, and the ask of the other waits in l.schedule
C9_Witness ==
    \E c \in Callers : \E d \in Callers \ {c} :
        /\ ~done /\ cpc[c] = "recv" /\ reply[c] # << >> /\ Head(reply[c]) > 0
        /\ cpc[d] = "recv" /\ Waiting(d) = 1

\* C11: replenishment follows elapsed time.  On a new limiter the i-th of
\* the Allow calls served at the instant of the first is granted exactly
\* when i <= quantum (quantum 3: calls 1 to 3 granted, 4 to 7 denied).  After
\* a denial at t0 and d units (1 <= d <= quantum) without a grant, the n-th
\* Allow call served at t0 + d is granted exactly when n <= d: d calls are
\* granted before the next denial.
C11_Replenish ==
    /\ \A i \in 1..Len(outcomes) :
          outcomes[i].at = outcomes[1].at => (outcomes[i].granted <=> i <= quantum)
    /\ \A i \in 1..Len(outcomes) : \A j \in (i + 1)..Len(outcomes) :
          LET d == outcomes[j].at - outcomes[i].at
              n == Cardinality({x \in (i + 1)..j : outcomes[x].at = outcomes[j].at})
          IN  (/\ ~outcomes[i].granted
               /\ d >= 1 /\ d <= quantum
               /\ \A x \in (i + 1)..(j - 1) :
                     outcomes[x].at < outcomes[j].at => ~outcomes[x].granted)
              => (outcomes[j].granted <=> n <= d)

\* the run of TestLimiterReplenish: seven calls at one instant, then, one
\* unit later, a call that is granted and a call that is denied
C11_Witness ==
    /\ quantum = ReplQuantum
    /\ Len(outcomes) = 9
    /\ outcomes[7].at = outcomes[1].at
    /\ outcomes[8].at = outcomes[1].at + 1
    /\ outcomes[9].at = outcomes[8].at
    /\ outcomes[8].granted
    /\ ~outcomes[9].granted

\* a caller whose call in progress has been granted and not yet returned
GrantInProgress(c) ==
    cpc[c] = "recv" /\ reply[c] # << >> /\ Head(reply[c]) <= 0 /\ basis[c].on

\* two calls in progress at once that were granted on one key were granted
\* on different baselines: the later one read the entry the earlier one wrote
NoSharedBaseline ==
    \A c \in Callers : \A d \in Callers \ {c} :
        (GrantInProgress(c) /\ GrantInProgress(d) /\ cur[c].task = cur[d].task)
        => basis[c].base # basis[d].base

\* C12: concurrent Schedule calls are serialized by run.  A step that serves
\* an ask serves one ask: it replies to that ask's caller only, with the
\* delay computed on the ledger the earlier steps left, touches the entry of
\* that ask's key only and handles no tick; a step that handles a tick
\* serves no ask; so the replies and the ledger are those of the asks taken
\* one after the other in the order run receives them.  Two calls in
\* progress at once on one key are never both granted on the same baseline.
C12_Serialized ==
    [][ /\ ServeStep =>
            LET a == Head(schedule)
            IN  /\ reply' = [reply EXCEPT ![a.caller] =
                                Append(@, Delta(m, a.task, a.slice, now))]
                /\ m' = Commit(m, a.task, a.slice, now)
                /\ \A k \in Keys \ {a.task} : Lookup(m', k) = Lookup(m, k)
                /\ tickC' = tickC
        /\ (tickC /\ ~tickC') => (schedule' = schedule /\ reply' = reply)
        /\ m' # m => (ServeStep \/ (tickC /\ ~tickC'))
        /\ NoSharedBaseline']_vars

\* two callers hold grants on one key at once, granted on different baselines
C12_Witness ==
    \E c \in Callers : \E d \in Callers \ {c} :
        /\ GrantInProgress(c) /\ GrantInProgress(d)
        /\ cur[c].task = cur[d].task
        /\ basis[c].base < basis[d].base

\* C13: sweeper liveness.  On a limiter that is not closed, with time
\* advancing and ticks firing, the entry of a task that is no longer
\* scheduled is eventually deleted, also while the ledger holds more
\* entries than a pass visits and the other tasks keep being refreshed.
C13_StaleEntrySwept == (StaleTask \in DOMAIN m) ~> (StaleTask \notin DOMAIN m)

\* a tick is pending on a ledger of NTasks entries, more than a pass visits,
\* that holds the stale entry and entries refreshed since
C13_Witness ==
    /\ Cardinality(DOMAIN m) = NTasks
    /\ m[StaleTask] < now - quantum
    /\ \E k \in DOMAIN m : m[k] >= now - quantum
    /\ tickC

\* the Close call that shut the limiter down has returned
CloseReturned == done /\ \E c \in Closers : kpc[c] = "returned"

\* a step in which run handles a tick
TickStep == actor = "run" /\ tickC /\ ~tickC'

C15_DenialRepeat ==
    \A k \in Keys : \A i \in 1..Len(denied[k]) : \A j \in (i + 1)..Len(denied[k]) :
        denied[k][i].slice = denied[k][j].slice
        => /\ denied[k][j].delay <= denied[k][i].delay
           /\ denied[k][i].at = denied[k][j].at
                => denied[k][j].delay = denied[k][i].delay

\* a call denied twice at one instant and once more, with a smaller delay,
\* later
C15_Witness ==
    \E k \in Keys :
        /\ Len(denied[k]) = 3
        /\ denied[k][1].slice = denied[k][2].slice
        /\ denied[k][2].slice = denied[k][3].slice
        /\ denied[k][1].at = denied[k][2].at
        /\ denied[k][2].at < denied[k][3].at
        /\ denied[k][3].delay < denied[k][2].delay

\* C16: one tick's sweep pass deletes at most maxSweep entries, however
\* many entries of the ledger have left the window.
C16_SweepAtMostMaxSweep ==
    [][TickStep => Cardinality(DOMAIN m \ DOMAIN m') <= maxSweep]_vars

\* C17: the sweeper deletes an entry only when its value is strictly earlier
\* than (sweep time - quantum), leaves the entries it keeps as they are, and
\* the deletion cannot be seen: every reply is the delay that a limiter
\* which is sent the same calls at the same instants and never sweeps
\* computes from its own entry.
C17_SweepInvisible ==
    [][ /\ \A k \in DOMAIN m :
              IF k \in DOMAIN m' THEN TickStep => m'[k] = m[k]
                                 ELSE TickStep /\ m[k] < now - quantum
        /\ ServeStep =>
              LET a == Head(schedule)
              IN  reply'[a.caller] =
                      <<floor(solo[a.task], now) + a.slice - now>> ]_vars

\* an ask that can be granted waits on a key whose entry the sweeper deleted
C17_Witness ==
    /\ schedule # << >>
    /\ Head(schedule).task \notin DOMAIN m
    /\ solo[Head(schedule).task] # ZeroTime
    /\ Head(schedule).slice > 0
    /\ Head(schedule).slice <= quantum

\* C18: the committed-until value a grant writes for a key is never earlier
\* than the value the previous grant on that key wrote (solo holds it, also
\* after the sweeper has deleted the entry).
C18_CommittedMonotone ==
    [][(ServeStep /\ Granted) =>
          m'[Head(schedule).task] >= solo[Head(schedule).task]]_vars

\* C19: a Schedule call whose slice is larger than the quantum is never
\* granted, whatever the ledger and the time: its delay is at least
\* slice - quantum > 0, the ledger stays as it is, and the retry made when
\* the returned delay has passed is denied again.
C19_OversizeNeverGranted ==
    [][ServeStep =>
          LET a == Head(schedule)
          IN  /\ a.slice > quantum =>
                    /\ Len(reply'[a.caller]) = 1
                    /\ reply'[a.caller][1] >= a.slice - quantum
                    /\ reply'[a.caller][1] > 0
                    /\ m' = m
              /\ (retry'.due /\ retry'.slice > quantum) => ~retry'.granted]_vars

\* the retry of a call with a slice above the quantum, made when due, denied
C19_Witness ==
    /\ retry.due /\ retry.slice > quantum /\ ~retry.granted
    /\ HistKey \in DOMAIN m

\* C20: no ledger entry lies in the future.  An entry is created or changed
\* only by the step that grants an ask on its key; the value written is at
\* most the time of the write and, when the slice is not negative, at least
\* that time less the quantum; so every entry is at most the current time.
C20_NoFutureEntry ==
    [][ /\ \A k \in DOMAIN m' : m'[k] <= now'
        /\ \A k \in DOMAIN m' :
              (k \notin DOMAIN m \/ m'[k] # Lookup(m, k)) =>
                  /\ ServeStep
                  /\ Granted
                  /\ k = Head(schedule).task
                  /\ m'[k] <= now
                  /\ Head(schedule).slice >= 0 => m'[k] >= now - quantum ]_vars

\* a grant that used up the quantum: the entry written is the current time
C20_Witness ==
    \E c \in Callers :
        /\ cpc[c] = "recv" /\ reply[c] = <<0>>
        /\ cur[c].slice > 0
        /\ cur[c].task \in DOMAIN m
        /\ m[cur[c].task] = now

====
